---- MODULE Spec2Model ----
(***************************************************************************)
(* MechanicalSystem.py: a base class and three mechanical systems          *)
(* (spring-mass-damper, simple pendulum, rotational inertia), each with    *)
(* an equations(y, t) method, integrated by simulate() over 1000 samples.  *)
(*                                                                         *)
(* Numbers.  A Python float is modelled as a fixed-point number: the       *)
(* integer n stands for n / Grid; the smallest positive number, Tiny,      *)
(* plays the part of the smallest positive float, 5e-324: a part of it     *)
(* rounds to zero or to itself.  Every arithmetic operation rounds its   *)
(* result to the grid, as a float operation rounds to its format; the     *)
(* sine is computed on a finer grid.  The three non-finite floats are      *)
(* three integers outside the working range.                               *)
(*                                                                         *)
(* Objects.  A caller's list is a cell of heap; an instance's              *)
(* initial_conditions attribute holds the index of a cell, because line 8  *)
(* stores the reference it is given.                                       *)
(***************************************************************************)
EXTENDS Integers, Sequences, FiniteSets, TLC

VARIABLES heap, systems, last, nmut

vars == <<heap, systems, last, nmut>>

---------------------------------------------------------------------------
(* Bounds of the exploration *)

\* how many instances the caller constructs
MaxSystems == 1
\* how many item assignments the caller makes to its lists
MaxMutations == 2

---------------------------------------------------------------------------
(* Floats *)

\* np.linspace(0, self.time_span, 1000)
NSamples == 1000

\* the resolution of the fixed-point grid: every sample time i * T / 999 of
\* a whole time span T, and half its square, is a grid number
Grid == 2 * (NSamples - 1) * (NSamples - 1)

PosInf == 2147483647
NegInf == -2147483647
NaN == 2147483646

\* the smallest positive number, as 5e-324 is the smallest positive float
Tiny == 1

IsFinite(a) == a # PosInf /\ a # NegInf /\ a # NaN

\* float subtraction: inf - inf and anything with nan are nan
Sub(a, b) ==
  IF a = NaN \/ b = NaN THEN NaN
  ELSE IF ~IsFinite(a) THEN (IF b = a THEN NaN ELSE a)
  ELSE IF ~IsFinite(b) THEN -b
  ELSE a - b

Abs(a) == IF a < 0 THEN -a ELSE a

Sgn(a) == IF a < 0 THEN -1 ELSE 1

\* a / k for a whole k > 0, rounded to nearest
RoundDiv(a, k) ==
  Sgn(a) * (Abs(a) \div k + (IF 2 * (Abs(a) % k) >= k THEN 1 ELSE 0))

\* the float of a Python int
FromInt(i) == i * Grid

\* the float nearest to the decimal literal p / q
F(p, q) == RoundDiv(p * Grid, q)

\* one base-256 digit d of b in the long multiplication a * b / D, where
\* a = qa * D + ra and acc = <<quotient, remainder>> so far
Limb(acc, d, qa, ra, D) ==
  LET t == acc[2] * 256 + ra * d
  IN  <<acc[1] * 256 + qa * d + t \div D, t % D>>

\* a * b / D rounded to nearest, for a, b >= 0 and 0 < D < 2^22, without
\* an intermediate beyond 32 bits
MulDiv(a, b, D) ==
  LET qa == a \div D
      ra == a % D
      s3 == Limb(<<0, 0>>, b \div 16777216, qa, ra, D)
      s2 == Limb(s3, (b \div 65536) % 256, qa, ra, D)
      s1 == Limb(s2, (b \div 256) % 256, qa, ra, D)
      s0 == Limb(s1, b % 256, qa, ra, D)
  IN  s0[1] + (IF 2 * s0[2] >= D THEN 1 ELSE 0)

\* float multiplication of finite operands
Mul(a, b) ==
  IF a % Grid = 0 THEN (a \div Grid) * b
  ELSE IF b % Grid = 0 THEN a * (b \div Grid)
  ELSE Sgn(a) * Sgn(b) * MulDiv(Abs(a), Abs(b), Grid)

\* float division of finite operands, b # 0
Div(a, b) ==
  IF b % Grid = 0 THEN RoundDiv(Sgn(b) * a, Abs(b) \div Grid)
  ELSE Sgn(a) * Sgn(b) * MulDiv(Abs(a), Grid, Abs(b))

\* np.sin is computed on a grid 16 times finer than Grid, so that its
\* result, rounded to Grid, is the float's
SinGrid == 16 * Grid

\* np.pi on the finer grid
Pi == 100330004

\* one base-32 digit d of b in the long multiplication a * b / D, where
\* a = qa * D + ra and acc = <<quotient, remainder>> so far
Digit(acc, d, qa, ra, D) ==
  LET t == acc[2] * 32 + ra * d
  IN  <<acc[1] * 32 + qa * d + t \div D, t % D>>

\* a * b / D rounded to nearest, for a >= 0, 0 <= b < 2^30 and 0 < D < 2^25,
\* without an intermediate beyond 32 bits
MulDivFine(a, b, D) ==
  IF b = 0 THEN 0
  ELSE
  LET qa == a \div D
      ra == a % D
      s5 == Digit(<<0, 0>>, b \div 33554432, qa, ra, D)
      s4 == Digit(s5, (b \div 1048576) % 32, qa, ra, D)
      s3 == Digit(s4, (b \div 32768) % 32, qa, ra, D)
      s2 == Digit(s3, (b \div 1024) % 32, qa, ra, D)
      s1 == Digit(s2, (b \div 32) % 32, qa, ra, D)
      s0 == Digit(s1, b % 32, qa, ra, D)
  IN  s0[1] + (IF 2 * s0[2] >= D THEN 1 ELSE 0)

\* 1 - z * p / k on the finer grid: one step of the nested form of the
\* sine series
SeriesStep(z, p, k) == SinGrid - RoundDiv(MulDivFine(z, p, SinGrid), k)

\* sin(r) / r for r^2 = z on the finer grid: the series up to r^13 / 13!
\* (within 1e-9 of the sine for |r| <= pi/2)
SeriesOver(z) ==
  SeriesStep(z,
    SeriesStep(z,
      SeriesStep(z,
        SeriesStep(z,
          SeriesStep(z, SinGrid - RoundDiv(z, 156), 110), 72), 42), 20), 6)

\* sin(r) for |r| <= pi/2, both on the finer grid
SeriesSin(r) ==
  Sgn(r) * MulDivFine(Abs(r),
                      SeriesOver(MulDivFine(Abs(r), Abs(r), SinGrid)),
                      SinGrid)

\* w in [-pi, pi) folded into [-pi/2, pi/2], where the sine is the same
Folded(w) ==
  IF 2 * w > Pi THEN Pi - w ELSE IF 2 * w < -Pi THEN -Pi - w ELSE w

\* np.sin(x) on the finer grid, for x on Grid
SinFine(x) == SeriesSin(Folded(((16 * x + Pi) % (2 * Pi)) - Pi))

\* np.sin(x)
Sin(x) == RoundDiv(SinFine(x), 16)

\* q * np.sin(theta), the sine taken on the finer grid
MulSin(q, sine) == Sgn(q) * Sgn(sine) * MulDivFine(Abs(q), Abs(sine), SinGrid)

\* Python's a / b.  Dividing a Python float by zero raises
\* ZeroDivisionError; dividing a numpy float64 by zero warns and yields
\* an infinity or nan.
TrueDiv(a, b, numpy) ==
  IF b # 0 THEN [exc |-> "none", val |-> Div(a, b)]
  ELSE IF ~numpy THEN [exc |-> "ZeroDivisionError", val |-> 0]
  ELSE [exc |-> "none",
        val |-> IF a = 0 THEN NaN ELSE IF a > 0 THEN PosInf ELSE NegInf]

---------------------------------------------------------------------------
(* The classes *)

\* MechanicalSystem.__init__: the two attributes are bound to the
\* arguments as given; nothing is checked and nothing is copied
MechanicalSystem_init(initial_conditions, time_span) ==
  [exc |-> "none",
   self |-> [cls |-> "MechanicalSystem",
             initial_conditions |-> initial_conditions,
             time_span |-> time_span]]

SpringMassDamper_init(m, c, k, initial_conditions, time_span) ==
  [exc |-> "none",
   self |-> [cls |-> "SpringMassDamper",
             initial_conditions |-> initial_conditions,
             time_span |-> time_span,
             m |-> m, c |-> c, k |-> k]]

SimplePendulum_init(l, g, initial_conditions, time_span) ==
  [exc |-> "none",
   self |-> [cls |-> "SimplePendulum",
             initial_conditions |-> initial_conditions,
             time_span |-> time_span,
             l |-> l, g |-> g]]

RotationalInertia_init(I, torque, initial_conditions, time_span) ==
  [exc |-> "none",
   self |-> [cls |-> "RotationalInertia",
             initial_conditions |-> initial_conditions,
             time_span |-> time_span,
             I |-> I, torque |-> torque]]

Raise(e) == [exc |-> e, val |-> <<>>]

Return(v) == [exc |-> "none", val |-> v]

\* return [first, second], unless computing second raised
Return2(first, second) ==
  IF second.exc # "none" THEN Raise(second.exc)
  ELSE Return(<<first, second.val>>)

\* MechanicalSystem.equations
MechanicalSystem_equations(self, y, t) == Raise("NotImplementedError")

\* line 30 with c and k exchanged: (-self.k * v - self.c * x) / self.m
SpringMassDamper_exchanged(self, y, t) ==
  Return2(y.v[2],
          TrueDiv(Mul(-self.k, y.v[2]) - Mul(self.c, y.v[1]), self.m,
                  y.kind = "ndarray"))

\* SpringMassDamper.equations; y is [kind, v]: a list of Python floats or
\* an ndarray of float64.  x, v = y; dxdt = v;
\* dvdt = (-self.c * v - self.k * x) / self.m
SpringMassDamper_equations(self, y, t) ==
  Return2(y.v[2],
          TrueDiv(Mul(-self.c, y.v[2]) - Mul(self.k, y.v[1]), self.m,
                  y.kind = "ndarray"))

\* -q * np.sin(theta), unless computing q raised
TimesSin(q, theta) ==
  IF q.exc # "none" THEN q ELSE Return(MulSin(-q.val, SinFine(theta)))

\* SimplePendulum.equations.  theta, omega = y; dthetadt = omega;
\* domegadt = -(self.g / self.l) * np.sin(theta), where g / l divides two
\* Python floats
SimplePendulum_equations(self, y, t) ==
  Return2(y.v[2], TimesSin(TrueDiv(self.g, self.l, FALSE), y.v[1]))

\* line 56 with the sign of the torque reversed: -self.torque / self.I
RotationalInertia_reversed(self, y, t) ==
  Return2(y.v[2], TrueDiv(-self.torque, self.I, FALSE))

\* RotationalInertia.equations.  theta, omega = y; dthetadt = omega;
\* domegadt = self.torque / self.I
RotationalInertia_equations(self, y, t) ==
  Return2(y.v[2], TrueDiv(self.torque, self.I, FALSE))

\* self.equations(y, t): the method of the instance's class
equations(self, y, t) ==
  CASE self.cls = "SpringMassDamper" -> SpringMassDamper_equations(self, y, t)
    [] self.cls = "SimplePendulum" -> SimplePendulum_equations(self, y, t)
    [] self.cls = "RotationalInertia" -> RotationalInertia_equations(self, y, t)
    [] OTHER -> MechanicalSystem_equations(self, y, t)

---------------------------------------------------------------------------
(* simulate *)

\* np.linspace(start, stop, num) for finite start and stop, with
\* step = (stop - start) / (num - 1): num floats, the last set to stop.
\* When the step has rounded to zero, sample i is (i / (num - 1)) * (stop -
\* start) instead.
Spaced(start, stop, num, step) ==
  [i \in 1..num |->
     IF i = num THEN stop
     ELSE IF step = 0
          THEN Mul(Div(FromInt(i - 1), FromInt(num - 1)), stop - start) + start
          ELSE Mul(FromInt(i - 1), step) + start]

\* np.linspace(start, stop, num) for a finite start and a non-finite stop:
\* the step is stop, 0 * stop is nan, and every later sample is stop
Unbounded(stop, num) == [i \in 1..num |-> IF i = 1 THEN NaN ELSE stop]

\* np.linspace(start, stop, num, endpoint=False): num steps, the last
\* sample one step before stop
linspace_open(start, stop, num) ==
  IF ~IsFinite(stop) THEN Unbounded(stop, num)
  ELSE [i \in 1..num |->
          Mul(FromInt(i - 1), Div(stop - start, FromInt(num))) + start]

\* np.linspace(start, stop, num)
linspace(start, stop, num) ==
  IF ~IsFinite(stop) THEN Unbounded(stop, num)
  ELSE Spaced(start, stop, num, Div(stop - start, FromInt(num - 1)))

ndarray(v) == [kind |-> "ndarray", v |-> v]

AllFinite(v) == \A j \in 1..Len(v) : IsFinite(v[j])

\* y + h * k, componentwise
Axpy(y, h, k) == [j \in 1..Len(y) |-> y[j] + Mul(h, k[j])]

\* the node of stage s of the classical Runge-Kutta step, as a part of h
StageA(s, h) == IF s = 4 THEN h ELSE Div(h, FromInt(2))

\* the weight of stage s
StageB(s) == IF s = 1 \/ s = 4 THEN 1 ELSE 2

\* sum + b * d for a whole b, componentwise
Weighted(sum, b, d) == [j \in 1..Len(sum) |-> sum[j] + b * d[j]]

\* The integrator's step from (y, t) over h: the classical Runge-Kutta
\* step, stage by stage.  Stage 1 evaluates the derivative d at (y, t),
\* stage s > 1 at y + StageA(s, h) * k, where k is the derivative of the
\* stage before; each adds StageB(s) * d to sum, and after stage 4 the
\* step is y + h / 6 * sum.  An exception raised by an evaluation ends the
\* step with that exception, and a non-finite derivative ends it with
\* fin = FALSE.
RECURSIVE RK4(_, _, _, _, _, _, _)
Stage(self, y, t, h, s, sum, d) ==
  IF d.exc # "none" THEN [exc |-> d.exc, fin |-> FALSE, y |-> y]
  ELSE IF ~AllFinite(d.val) THEN [exc |-> "none", fin |-> FALSE, y |-> y]
  ELSE IF s = 4
  THEN [exc |-> "none", fin |-> TRUE,
        y |-> Axpy(y, Div(h, FromInt(6)), Weighted(sum, StageB(s), d.val))]
  ELSE RK4(self, y, t, h, s + 1, d.val, Weighted(sum, StageB(s), d.val))

RK4(self, y, t, h, s, k, sum) ==
  Stage(self, y, t, h, s, sum,
        IF s = 1 THEN equations(self, ndarray(y), t)
        ELSE equations(self, ndarray(Axpy(y, StageA(s, h), k)),
                       t + StageA(s, h)))

\* the outcome a of the first intervals followed by the outcome b of the rest
Joined(a, b) == [exc |-> b.exc, fin |-> b.fin, rows |-> a.rows \o b.rows]

\* the outcome of one interval, step s
Row(s) == [exc |-> s.exc, fin |-> s.fin,
           rows |-> IF s.fin THEN <<s.y>> ELSE <<>>]

\* the states at t[i+1] .. t[i+n], integrating from y at t[i]; rows holds
\* the states reached before the integration stopped
RECURSIVE Integrate(_, _, _, _, _)
Rest(self, t, i, n, a) ==
  IF ~a.fin THEN a
  ELSE Joined(a, Integrate(self, a.rows[Len(a.rows)], t,
                           i + n \div 2, n - n \div 2))

Integrate(self, y, t, i, n) ==
  IF n = 0 THEN [exc |-> "none", fin |-> TRUE, rows |-> <<>>]
  ELSE IF n = 1
  THEN Row(RK4(self, y, t[i], t[i + 1] - t[i], 1, y, [j \in 1..Len(y) |-> 0]))
  ELSE Rest(self, t, i, n, Integrate(self, y, t, i, n \div 2))

\* an array whose first row is the state after the first interval
SolutionShifted(y0, t, r) ==
  IF r.exc # "none" THEN Raise(r.exc)
  ELSE Return(r.rows \o
              [j \in 1..(Len(t) - Len(r.rows)) |->
                 [c \in 1..Len(y0) |-> NaN]])

\* the array odeint returns after the integration r
Solution(y0, t, r) ==
  IF r.exc # "none" THEN Raise(r.exc)
  ELSE Return(<<y0>> \o r.rows \o
              [j \in 1..(Len(t) - 1 - Len(r.rows)) |->
                 [c \in 1..Len(y0) |-> NaN]])

\* odeint's test of t before it integrates: np.diff(t) is >= 0 throughout
\* or <= 0 throughout; a nan difference is neither
Monotonic(t) ==
  \/ \A i \in 1..(Len(t) - 1) :
       Sub(t[i + 1], t[i]) # NaN /\ Sub(t[i + 1], t[i]) >= 0
  \/ \A i \in 1..(Len(t) - 1) :
       Sub(t[i + 1], t[i]) # NaN /\ Sub(t[i + 1], t[i]) <= 0

\* scipy.integrate.odeint(func, y0, t): t is tested first, and a t that is
\* not monotonic raises ValueError.  Then y0 is copied into the first row of
\* a new array, each later row is the state integrated to that sample
\* time.  An exception of func leaves odeint as raised.  When the solver
\* cannot go on (a non-finite derivative) odeint warns and still returns
\* the array; the rows it did not reach are modelled as nan.
odeint(self, y0, t) ==
  IF ~Monotonic(t) THEN Raise("ValueError")
  ELSE Solution(y0, t, Integrate(self, y0, t, 1, Len(t) - 1))

\* return time_points, solution
Pair(time_points, solution) ==
  IF solution.exc # "none" THEN Raise(solution.exc)
  ELSE Return([times |-> time_points, states |-> solution.val])

\* solution = odeint(self.equations, self.initial_conditions, time_points)
Solve(self, time_points) ==
  Pair(time_points, odeint(self, self.initial_conditions, time_points))

\* MechanicalSystem.simulate; self.initial_conditions is here the list
\* the attribute refers to
simulate(self) == Solve(self, linspace(0, self.time_span, NSamples))

---------------------------------------------------------------------------
(* The caller's inputs *)

\* time_span=20 of the three scenarios, the smallest positive float, and
\* float('inf')
TimeSpans == {FromInt(20), Tiny, PosInf}

\* the values the caller puts in a list
Items == {0, Grid}

ListValues == {<<a, b>> : a \in Items, b \in Items}

\* the caller's list: initial_conditions=[1.0, 0.0] of the first scenario
InitialHeap == << <<Grid, 0>> >>

\* the caller's lists: [1.0, 0.0] and [0.0, 0.0] of the scenarios
ScenarioHeap == << <<Grid, 0>>, <<0, 0>> >>

\* (m, c, k): the scenario's, a zero mass, a negative mass
SpringMassDamperArgs ==
  { <<Grid, F(1, 2), FromInt(2)>>,
    <<0, F(1, 2), FromInt(2)>>,
    <<-Grid, -F(1, 2), -FromInt(2)>> }

\* (l, g): the scenario's, a zero length
SimplePendulumArgs == { <<Grid, F(981, 100)>>, <<0, F(981, 100)>> }

\* (I, torque): the scenario's, a zero inertia, a negative inertia
RotationalInertiaArgs == { <<Grid, Grid>>, <<0, Grid>>, <<-Grid, Grid>> }

\* the parameters and the time span of the three scenarios alone
ScenarioSpringMassDamper == { <<Grid, F(1, 2), FromInt(2)>> }
ScenarioSimplePendulum == { <<Grid, F(981, 100)>> }
ScenarioRotationalInertia == { <<Grid, Grid>> }
ScenarioTimeSpans == {FromInt(20)}

\* the sample times the caller passes to equations
Times == {0, FromInt(20)}

\* the states the caller passes to equations as a list built for the call
StateArgs == { <<F(1, 2), -Grid>>, <<-FromInt(3), F(1, 4)>> }

\* every instance the caller can construct over initial conditions ic
Constructed(ic, T) ==
  {MechanicalSystem_init(ic, T).self}
  \cup {SpringMassDamper_init(a[1], a[2], a[3], ic, T).self :
          a \in SpringMassDamperArgs}
  \cup {SimplePendulum_init(a[1], a[2], ic, T).self : a \in SimplePendulumArgs}
  \cup {RotationalInertia_init(a[1], a[2], ic, T).self :
          a \in RotationalInertiaArgs}

\* an instance with its initial_conditions reference followed
Deref(self, hp) ==
  [self EXCEPT !.initial_conditions = hp[self.initial_conditions]]

\* simulate() tabulated over the instances the caller can construct
Trajectories ==
  [sv \in UNION {Constructed(ic, T) : ic \in ListValues, T \in TimeSpans} |->
     simulate(sv)]

---------------------------------------------------------------------------
(* The caller's steps *)

\* the caller has built the lists hp and no instance
Start(hp) ==
  /\ heap = hp
  /\ systems = <<>>
  /\ last = [op |-> "start"]
  /\ nmut = 0

Init == Start(InitialHeap)

InitScenarios == Start(ScenarioHeap)

\* a constructor call returning r, with at most `most` instances built: the
\* new instance is bound by the caller
Construct(r, most) ==
  /\ Len(systems) < most
  /\ systems' = IF r.exc = "none" THEN Append(systems, r.self) ELSE systems
  /\ last' = [op |-> "__init__", exc |-> r.exc, self |-> r.self]
  /\ UNCHANGED <<heap, nmut>>

NewMechanicalSystem(spans, most) ==
  \E ref \in DOMAIN heap, T \in spans :
    Construct(MechanicalSystem_init(ref, T), most)

NewSpringMassDamper(args, spans, most) ==
  \E a \in args, ref \in DOMAIN heap, T \in spans :
    Construct(SpringMassDamper_init(a[1], a[2], a[3], ref, T), most)

NewSimplePendulum(args, spans, most) ==
  \E a \in args, ref \in DOMAIN heap, T \in spans :
    Construct(SimplePendulum_init(a[1], a[2], ref, T), most)

NewRotationalInertia(args, spans, most) ==
  \E a \in args, ref \in DOMAIN heap, T \in spans :
    Construct(RotationalInertia_init(a[1], a[2], ref, T), most)

\* a simulate() that hands the list it holds to the integrator as its work
\* array: the list is left cleared
SimulateClearing(i) ==
  LET self == Deref(systems[i], heap)
      r == Trajectories[self]
  IN  /\ last' = [op |-> "simulate", inst |-> i, self |-> self,
                  exc |-> r.exc]
      /\ heap' = IF r.exc # "none" THEN heap
                 ELSE [heap EXCEPT ![systems[i].initial_conditions] =
                                      [j \in 1..Len(@) |-> 0]]
      /\ UNCHANGED <<systems, nmut>>

\* systems[i].simulate(): no attribute and no list is assigned.  The call
\* is recorded with the instance as it was and the exception raised, if
\* any; what it returned is Trajectories[last.self].val
Simulate(i) ==
  LET self == Deref(systems[i], heap)
      r == Trajectories[self]
  IN  /\ last' = [op |-> "simulate", inst |-> i, self |-> self,
                  exc |-> r.exc]
      /\ UNCHANGED <<heap, systems, nmut>>

\* an equations() that writes the derivative into the list it is given
EquationsInPlace(i, ref, y, t) ==
  LET self == Deref(systems[i], heap)
      r == equations(self, [kind |-> "list", v |-> y], t)
  IN  /\ last' = [op |-> "equations", inst |-> i, self |-> self,
                  y |-> y, exc |-> r.exc, val |-> r.val]
      /\ heap' = IF ref = 0 \/ r.exc # "none" THEN heap
                 ELSE [heap EXCEPT ![ref] = r.val]
      /\ UNCHANGED <<systems, nmut>>

\* systems[i].equations(y, t), where y is the caller's list heap[ref], or
\* (ref = 0) a list built for the call
Equations(i, ref, y, t) ==
  LET self == Deref(systems[i], heap)
      r == equations(self, [kind |-> "list", v |-> y], t)
  IN  /\ last' = [op |-> "equations", inst |-> i, self |-> self,
                  y |-> y, exc |-> r.exc, val |-> r.val]
      /\ UNCHANGED <<heap, systems, nmut>>

\* the caller assigns an item of the list it built: a[j] = v (i = 0), or of
\* the list an instance holds: systems[i].initial_conditions[j] = v
SetItem(ref, i, j, v) ==
  /\ nmut < MaxMutations
  /\ i = 0 \/ (i \in DOMAIN systems /\ systems[i].initial_conditions = ref)
  /\ heap' = [heap EXCEPT ![ref][j] = v]
  /\ last' = [op |-> "setitem", inst |-> i, obj |-> ref]
  /\ nmut' = nmut + 1
  /\ UNCHANGED systems

\* the calls on the instances built, and the item assignments
Use ==
  \/ \E i \in DOMAIN systems : Simulate(i)
  \/ \E i \in DOMAIN systems, ref \in DOMAIN heap, t \in Times :
       Equations(i, ref, heap[ref], t)
  \/ \E i \in DOMAIN systems, y \in StateArgs, t \in Times :
       Equations(i, 0, y, t)
  \/ \E ref \in DOMAIN heap, i \in DOMAIN systems \cup {0}, j \in 1..2,
        v \in Items :
       SetItem(ref, i, j, v)

\* any constructor with any of the arguments, at most MaxSystems instances
Next ==
  \/ NewMechanicalSystem(TimeSpans, MaxSystems)
  \/ NewSpringMassDamper(SpringMassDamperArgs, TimeSpans, MaxSystems)
  \/ NewSimplePendulum(SimplePendulumArgs, TimeSpans, MaxSystems)
  \/ NewRotationalInertia(RotationalInertiaArgs, TimeSpans, MaxSystems)
  \/ Use

Spec == Init /\ [][Next]_vars

\* the three scenarios of the script, here over two lists the caller may
\* share between them: one instance more than in Spec
NextScenarios ==
  \/ NewSpringMassDamper(ScenarioSpringMassDamper, ScenarioTimeSpans,
                         MaxSystems + 1)
  \/ NewSimplePendulum(ScenarioSimplePendulum, ScenarioTimeSpans,
                       MaxSystems + 1)
  \/ NewRotationalInertia(ScenarioRotationalInertia, ScenarioTimeSpans,
                          MaxSystems + 1)
  \/ Use

SpecScenarios == InitScenarios /\ [][NextScenarios]_vars

---------------------------------------------------------------------------
(* Properties *)

\* the parameter an instance's equations divides by
Divisor(self) ==
  CASE self.cls = "SpringMassDamper" -> self.m
    [] self.cls = "SimplePendulum" -> self.l
    [] self.cls = "RotationalInertia" -> self.I
    [] OTHER -> Grid

\* the instance of the rotational scenario: RotationalInertia(I=1.0,
\* torque=1.0, initial_conditions=[0.0, 0.0], time_span=20)
ConstantTorqueSystem ==
  RotationalInertia_init(Grid, Grid, <<0, 0>>, FromInt(20)).self

\* C1: constructing a system whose m, l or I is zero fails with a
\* DomainError, no such instance exists, and no simulate() on such a system
\* returns a (times, states) result.
ZeroRejected ==
  /\ (last.op = "__init__" /\ Divisor(last.self) = 0)
       => last.exc = "DomainError"
  /\ \A i \in DOMAIN systems : Divisor(systems[i]) # 0
  /\ (last.op = "simulate" /\ Divisor(last.self) = 0) => last.exc # "none"

\* the first row of a returned trajectory is the list self holds
FirstRowIs(r, self) ==
  r.exc = "none" => r.val.states[1] = self.initial_conditions

\* C2: whenever simulate() returns, states[0] equals the instance's
\* initial_conditions, component by component.
InitialStateKept ==
  last.op = "simulate" => FirstRowIs(Trajectories[last.self], last.self)

\* the integration moved the state away from its first row
Moved(r) == r.val.states[2] # r.val.states[1]

InitialStateKeptSeen ==
  /\ last.op = "simulate"
  /\ last.exc = "none"
  /\ last.self.cls = "SimplePendulum"
  /\ last.self.initial_conditions = <<Grid, 0>>
  /\ Moved(Trajectories[last.self])

\* times is the uniform grid of NSamples points from 0 to T, and states has
\* one row for each.  Uniform is up to rounding: the step T / (NSamples - 1)
\* is rounded once, so a gap differs from the first gap by at most
\* NSamples - 1 roundings of half a unit.
SampledOver(v, T) ==
  /\ Len(v.times) = NSamples
  /\ v.times[1] = 0
  /\ v.times[NSamples] = T
  /\ \A i \in 1..(NSamples - 1) :
       /\ v.times[i] < v.times[i + 1]
       /\ 2 * Abs((v.times[i + 1] - v.times[i]) - (v.times[2] - v.times[1]))
            <= NSamples - 1
  /\ Len(v.states) = Len(v.times)

\* the step is resolved: NSamples - 1 roundings of it, half a unit each,
\* stay below the step itself.  Every normal float is; the smallest
\* positive floats are not.
Resolved(step) == 2 * step > NSamples - 1

\* C3, as stated: for a strictly positive time_span, the times simulate()
\* returns are 1000 values from 0 to time_span, uniformly spaced and
\* strictly increasing, and states has one row per time.
UniformSampleTimes ==
  (last.op = "simulate" /\ last.exc = "none" /\ last.self.time_span > 0)
    => SampledOver(Trajectories[last.self].val, last.self.time_span)

\* C3, amended: for a strictly positive, finite time_span whose step
\* time_span / 999 is resolved, simulate() returns, and its times are 1000
\* values from 0 to time_span, uniformly spaced up to rounding and strictly
\* increasing, with one row of states per time, unless equations raised.
ResolvedSampleTimes ==
  (/\ last.op = "simulate"
   /\ last.self.time_span > 0
   /\ IsFinite(last.self.time_span)
   /\ Resolved(Div(last.self.time_span, FromInt(NSamples - 1))))
    => /\ last.exc \in {"none", "ZeroDivisionError", "NotImplementedError"}
       /\ last.exc = "none"
            => SampledOver(Trajectories[last.self].val, last.self.time_span)

ResolvedSampleTimesSeen ==
  /\ last.op = "simulate"
  /\ last.exc = "none"
  /\ last.self.cls = "SpringMassDamper"
  /\ last.self.time_span = FromInt(20)
  /\ Trajectories[last.self].val.times[2] = F(20, NSamples - 1)

\* C4: a simulate() call that follows a simulate() call, on the same
\* instance or on an instance whose attributes are equal, raises the same
\* and returns the same (times, states): the first call left nothing behind.
Determinism ==
  [][(/\ last.op = "simulate"
      /\ last'.op = "simulate"
      /\ Deref(systems[last'.inst], heap) = Deref(systems[last.inst], heap))
       => (/\ last'.exc = last.exc
           /\ Trajectories[last'.self] = Trajectories[last.self])]_vars

\* simulate() has returned for an instance that has a twin: another
\* instance, over another list, with equal attributes
DeterminismSeen ==
  /\ last.op = "simulate"
  /\ last.exc = "none"
  /\ \E j \in DOMAIN systems :
       /\ j # last.inst
       /\ systems[j].initial_conditions
            # systems[last.inst].initial_conditions
       /\ Deref(systems[j], heap) = last.self

\* the sine of the angles the caller passes, to eight decimals, on the
\* finer grid: sin(0), sin(0.5), sin(1), sin(-3) = -0.14112001
SineTable ==
  [theta \in {0, F(1, 2), Grid, -FromInt(3)} |->
     CASE theta = 0 -> 0
       [] theta = F(1, 2) -> 15310949
       [] theta = Grid -> 26873244
       [] OTHER -> -4506813]

\* d is the derivative the class of self prescribes at state y: the second
\* component times the divisor gives back the numerator, up to the
\* rounding of the operations
FollowsLaw(self, y, d) ==
  /\ Len(d) = 2
  /\ d[1] = y[2]
  /\ CASE self.cls = "SpringMassDamper" ->
            Abs(Mul(d[2], self.m) + Mul(self.c, y[2]) + Mul(self.k, y[1]))
              <= 2
       [] self.cls = "SimplePendulum" ->
            Abs(Mul(d[2], self.l) + MulSin(self.g, SineTable[y[1]])) <= 2
       [] self.cls = "RotationalInertia" ->
            Abs(Mul(d[2], self.I) - self.torque) <= 2
       [] OTHER -> FALSE

\* C5: equations(y, t) of a system whose divisor (m, l, I) is not zero
\* returns a vector of length 2 that follows the law of its class, and
\* returns the same vector at any other time t.
EquationsLaw ==
  (/\ last.op = "equations"
   /\ last.self.cls # "MechanicalSystem"
   /\ Divisor(last.self) # 0)
    => /\ last.exc = "none"
       /\ FollowsLaw(last.self, last.y, last.val)
       /\ \A t \in Times :
            equations(last.self, [kind |-> "list", v |-> last.y], t).val
              = last.val

EquationsLawSeen ==
  /\ last.op = "equations"
  /\ last.self.cls = "SpringMassDamper"
  /\ last.self.m = Grid
  /\ last.y = <<F(1, 2), -Grid>>
  /\ last.exc = "none"
  /\ last.val = <<-Grid, -F(1, 2)>>

\* C6: every constructor rejects a negative m, l or I with a DomainError, so
\* that no instance holds one.
NegativeRejected ==
  /\ (last.op = "__init__" /\ Divisor(last.self) < 0)
       => last.exc = "DomainError"
  /\ \A i \in DOMAIN systems : Divisor(systems[i]) >= 0

\* the derivative d is a failure: an exception, or a non-finite component
Failed(d) == d.exc # "none" \/ ~AllFinite(d.val)

\* C7: when the derivative fails at the first evaluation point of
\* simulate(), the state y0 at time 0, the call returns no trajectory: the
\* failure reaches the caller.
FailureAborts ==
  (/\ last.op = "simulate"
   /\ Failed(equations(last.self, ndarray(last.self.initial_conditions), 0)))
    => last.exc # "none"

\* how far theta and omega of row i are from t^2 / 2 and t
ClosedFormError(v, i) ==
  <<Abs(v.states[i][1] - Mul(v.times[i], v.times[i]) \div 2),
    Abs(v.states[i][2] - v.times[i])>>

\* every row is within tol of the closed form, and the last row of
\* theta = 200, omega = 20
NearClosedForm(v, tol) ==
  /\ \A i \in 1..NSamples :
       ClosedFormError(v, i)[1] <= tol /\ ClosedFormError(v, i)[2] <= tol
  /\ Abs(v.states[NSamples][1] - FromInt(200)) <= tol
  /\ Abs(v.states[NSamples][2] - FromInt(20)) <= tol

\* C8: simulate() of RotationalInertia(I=1, torque=1) from [0, 0] over
\* time_span=20 returns theta(t) = t^2 / 2 and omega(t) = t within 1e-3 at
\* every sample; the last sample is theta = 200, omega = 20.
ConstantTorqueClosedForm ==
  (last.op = "simulate" /\ last.self = ConstantTorqueSystem)
    => /\ last.exc = "none"
       /\ NearClosedForm(Trajectories[last.self].val, F(1, 1000))

ConstantTorqueClosedFormSeen ==
  /\ last.op = "simulate"
  /\ last.self = ConstantTorqueSystem
  /\ Trajectories[last.self].val.states[NSamples][2] > FromInt(19)

\* C9: with two instances built, an item assignment to a caller's list
\* (i = 0) or to the initial_conditions of instance i leaves the
\* initial_conditions, and every other attribute, of every other instance
\* as it was.
NoSharedState ==
  [][(last'.op = "setitem" /\ Len(systems) = 2)
       => \A j \in DOMAIN systems :
            j # last'.inst
              => Deref(systems'[j], heap') = Deref(systems[j], heap)]_vars

\* C10: a simulate() or equations() call assigns no attribute of any
\* instance and no item of any list: the instance's parameters,
\* initial_conditions and time_span, and the argument y, are as before.
CallsAssignNothing ==
  [][last'.op \in {"simulate", "equations"}
       => (systems' = systems /\ heap' = heap)]_vars

\* equations() has returned a derivative that differs from the list it was
\* given, the list the instance itself holds
CallsAssignNothingSeen ==
  /\ last.op = "equations"
  /\ last.exc = "none"
  /\ last.y = heap[systems[last.inst].initial_conditions]
  /\ last.val # last.y

====
